---- MODULE Spec2Model ----
(***************************************************************************)
(* Model of src/app.py (brand-fit auditor): score reconciliation, hotspot  *)
(* de-duplication, JSON extraction from model text, and the brand-research *)
(* part of the run (research call, refine decision, refine call).          *)
(*                                                                         *)
(* Conventions.                                                            *)
(*  - Scores are carried in half units (score2 = 2 * score), so that x.5   *)
(*    inputs exercise Python's round() (round-half-to-even) and int()      *)
(*    (truncation toward zero).                                            *)
(*  - Coordinates are carried in hundredths (0.12 is 12, 1.0 is 100); the  *)
(*    geometry is exact rational arithmetic, not IEEE floating point.      *)
(*  - A Python dict is a function from its present keys to values.         *)
(***************************************************************************)
EXTENDS Integers, Sequences, FiniteSets, TLC

VARIABLES
    fit, fitOut, spc,                                  \* reconcile_scores
    hs, hsOut, hsOut2, hsPerm, hsPermOut, hpc, setOrder, \* dedupe_hotspots
    raw, data, ppc,                                    \* parse_json_or_fail
    pc, brand, copy_txt, imgs, use_sample, sample_reads, \* run: position, inputs
    br_raw, br_json, br_raw2, br_json2, calls,         \* run: research
    extGets, image_parts, data_uris,                   \* run: evidence, images
    fit_raw, fit_json, evalCalls, shown, drawn, doc,   \* run: evaluation on
    fpc, furls, fi, gets, fret, packs, warnings,       \* fetch_html, evidence loop
    gpc, already, gi, picked, probes                   \* guess_brand_sources

varsScores == <<fit, fitOut, spc>>
varsHot    == <<hs, hsOut, hsOut2, hsPerm, hsPermOut, hpc, setOrder>>
varsParse  == <<raw, data, ppc>>
varsInputs == <<brand, copy_txt, imgs, use_sample, sample_reads>>
varsRun    == <<pc, varsInputs, br_raw, br_json, br_raw2, br_json2, calls>>
varsEval   == <<extGets, image_parts, data_uris, fit_raw, fit_json, evalCalls,
                shown, drawn, doc>>
varsFetch  == <<fpc, furls, fi, gets, fret, packs, warnings>>
varsGuess  == <<gpc, already, gi, picked, probes>>
varsLib    == <<varsScores, varsHot, varsParse, varsFetch, varsGuess>>
vars       == <<varsLib, varsRun, varsEval, varsFetch, varsGuess>>

\* ---------------------------------------------------------------- bounds
MaxDims == 3
MaxHotspots == 3
MaxRaw == 4

\* ------------------------------------------------------------ arithmetic
Max(a, b) == IF a >= b THEN a ELSE b
Min(a, b) == IF a <= b THEN a ELSE b

RECURSIVE SumSeq(_)
SumSeq(s) == IF s = << >> THEN 0 ELSE Head(s) + SumSeq(Tail(s))

\* A plausible slip: rounding halves up instead of to even.
RoundHalfUp(num, den) ==
    LET q == num \div den
        r == num % den
    IN  IF 2 * r >= den THEN q + 1 ELSE q

\* Python 3 round(num/den) for den > 0: nearest integer, ties to even.
PyRound(num, den) ==
    LET q == num \div den
        r == num % den
    IN  IF 2 * r < den THEN q
        ELSE IF 2 * r > den THEN q + 1
        ELSE IF q % 2 = 0 THEN q ELSE q + 1

\* Python int() of a number given in half units: truncation toward zero.
PyIntHalf(v2) == IF v2 >= 0 THEN v2 \div 2 ELSE -((-v2) \div 2)

Clamp100(v) == Max(0, Min(100, v))

\* ---------------------------------------------------- reconcile_scores
AllowedNames == {"Tone & Voice", "Visual Identity", "Brand-Product Relevance"}

\* A JSON value where a score is expected: k = "num" (v2 = twice the number),
\* "absent" (key missing), "null", or "str" (a non-numeric string).
ScoreVal(k, v2) == [k |-> k, v2 |-> v2]

\* float(d.get("score", 0)) succeeds: a number, or the default 0.
FloatOk(s) == s.k \in {"num", "absent"}
FloatHalf(s) == IF s.k = "num" THEN s.v2 ELSE 0

\* One entry of "dimensions": isdict FALSE is a non-dict item; name "" stands
\* for a missing or non-string name.
DimItem(isdict, name, score) == [isdict |-> isdict, name |-> name, score |-> score]

compute_verdict(score) ==
    IF score >= 80 THEN "Strong fit"
    ELSE IF score >= 60 THEN "Good fit"
    ELSE IF score >= 40 THEN "Borderline"
    ELSE "Misaligned"

RECURSIVE valid_dims(_)
valid_dims(items) ==
    IF items = << >> THEN << >>
    ELSE LET d == Head(items)
             rest == valid_dims(Tail(items))
         IN  IF d.isdict /\ d.name \in AllowedNames /\ FloatOk(d.score)
             THEN <<[name |-> d.name,
                     score |-> Clamp100(PyRound(FloatHalf(d.score), 2))]>> \o rest
             ELSE rest

DimScores(dims) == [i \in 1..Len(dims) |-> dims[i].score]

\* A slip: the mean of the valid scores rounded half up.
MeanHalfUp(dims) == RoundHalfUp(SumSeq(DimScores(dims)), Len(dims))

\* int(round(sum(d["score"] for d in dims)/len(dims)))
MeanScore(dims) == PyRound(SumSeq(DimScores(dims)), Len(dims))

\* int(fit.get("overall_score", 0) or 0): raises on a non-numeric string.
OverallRaises(o) == o.k = "str"
OverallInt(o) == IF o.k = "num" THEN PyIntHalf(o.v2) ELSE 0

FallbackOverall(o) == Clamp100(OverallInt(o))

\* fit: [hasDims, dimensions, overall_score, verdict]. The result carries
\* raised = TRUE when the call ends in an exception (nothing is returned).
reconcile_scores(f) ==
    LET dims == IF f.hasDims THEN valid_dims(f.dimensions) ELSE << >>
    IN  IF dims # << >>
        THEN [raised |-> FALSE, dimensions |-> dims,
              overall_score |-> MeanScore(dims),
              verdict |-> compute_verdict(MeanScore(dims))]
        ELSE IF OverallRaises(f.overall_score)
        THEN [raised |-> TRUE, dimensions |-> f.dimensions,
              overall_score |-> 0, verdict |-> f.verdict]
        ELSE [raised |-> FALSE, dimensions |-> f.dimensions,
              overall_score |-> FallbackOverall(f.overall_score),
              verdict |-> compute_verdict(FallbackOverall(f.overall_score))]

\* ------------------------------------------------ inputs of the scores spec
Num(v2) == ScoreVal("num", v2)
NoScore == ScoreVal("absent", 0)
NullScore == ScoreVal("null", 0)
StrScore == ScoreVal("str", 0)

\* Entries the model may put in "dimensions": recognised names with scores at
\* the verdict boundaries, x.5 scores, out-of-range scores, a missing score, a
\* non-numeric score, an unrecognised name, a non-dict item.
DimPool ==
    { DimItem(TRUE, "Tone & Voice", Num(78)),             \* 39
      DimItem(TRUE, "Tone & Voice", Num(160)),            \* 80
      DimItem(TRUE, "Tone & Voice", NoScore),
      DimItem(TRUE, "Visual Identity", Num(80)),          \* 40
      DimItem(TRUE, "Visual Identity", Num(158)),         \* 79
      DimItem(TRUE, "Visual Identity", Num(-20)),         \* -10
      DimItem(TRUE, "Brand-Product Relevance", Num(121)), \* 60.5
      DimItem(TRUE, "Brand-Product Relevance", Num(164)), \* 82
      DimItem(TRUE, "Brand-Product Relevance", Num(300)), \* 150
      DimItem(TRUE, "Brand-Product Relevance", StrScore),
      DimItem(TRUE, "Brand Voice", Num(160)),
      DimItem(FALSE, "", NoScore) }

DimLists == UNION { [1..n -> DimPool] : n \in 0..MaxDims }

\* What the model reported as overall_score (with the verdict it reported).
ReportedPool ==
    { [o |-> NoScore,   v |-> ""],
      [o |-> NullScore, v |-> "Strong fit"],
      [o |-> Num(-10),  v |-> "Strong fit"],    \* -5
      [o |-> Num(78),   v |-> "Good fit"],      \* 39
      [o |-> Num(80),   v |-> "Misaligned"],    \* 40
      [o |-> Num(119),  v |-> "Strong fit"],    \* 59.5
      [o |-> Num(300),  v |-> "Misaligned"],    \* 150
      [o |-> StrScore,  v |-> "Good fit"] }     \* "N/A"

\* "dimensions" is either absent (hasDims FALSE) or a list.
FitInputs ==
    { [hasDims |-> TRUE, dimensions |-> ds, overall_score |-> r.o, verdict |-> r.v] :
        ds \in DimLists, r \in ReportedPool }
    \cup
    { [hasDims |-> FALSE, dimensions |-> << >>, overall_score |-> r.o, verdict |-> r.v] :
        r \in ReportedPool }

NoFitOut == [raised |-> FALSE, dimensions |-> << >>, overall_score |-> 0, verdict |-> ""]

IdleScores == /\ fit = [hasDims |-> FALSE, dimensions |-> << >>,
                        overall_score |-> NoScore, verdict |-> ""]
              /\ fitOut = NoFitOut
              /\ spc = "off"

\* line 661: fit_json = reconcile_scores(fit_json)
Reconcile ==
    /\ spc = "parsed"
    /\ fitOut' = reconcile_scores(fit)
    /\ spc' = IF reconcile_scores(fit).raised THEN "raised" ELSE "reconciled"
    /\ UNCHANGED <<fit, varsHot, varsParse, varsRun, varsEval, varsFetch, varsGuess>>

\* ------------------------------------------------------ dedupe_hotspots
\* Thresholds and the cap, in hundredths where they are lengths or ratios.
IouPct == 55
CenterDistMin == 12
MaxKept == 12

\* Defaults of _bbox for a circle (cx, cy 0.5; r 0.1).
DefaultCenter == 50
DefaultRadius == 10

CoordKeys == {"x", "y", "w", "h", "cx", "cy", "r"}

\* The strings risks and suggested_edits are made of.
TextItems == {"t1", "t2"}

\* str.lower() on the strings of the model that hold capitals.
Lower(s) == IF s \in {"Rect", "RECT"} THEN "rect"
            ELSE IF s \in {"Macro", "MACRO"} THEN "macro"
            ELSE s

\* h.get(k, d) on the coordinate fields of hotspot h.
Get(h, k, d) == IF k \in DOMAIN h.geo THEN h.geo[k] ELSE d

\* (h.get("shape") or "circle").lower(); shape "" stands for absent or null.
ShapeOf(h) == Lower(IF h.shape = "" THEN "circle" ELSE h.shape)

_bbox(h) ==
    IF ShapeOf(h) = "rect"
    THEN <<Get(h, "x", 0), Get(h, "y", 0),
           Get(h, "x", 0) + Get(h, "w", 0), Get(h, "y", 0) + Get(h, "h", 0)>>
    ELSE <<Get(h, "cx", DefaultCenter) - Get(h, "r", DefaultRadius),
           Get(h, "cy", DefaultCenter) - Get(h, "r", DefaultRadius),
           Get(h, "cx", DefaultCenter) + Get(h, "r", DefaultRadius),
           Get(h, "cy", DefaultCenter) + Get(h, "r", DefaultRadius)>>

_area(b) == Max(0, b[3] - b[1]) * Max(0, b[4] - b[2])

\* _iou as the pair <<intersection, union>> (the quotient is taken where it
\* is compared with the threshold).
_iou(b1, b2) ==
    LET iw == Max(0, Min(b1[3], b2[3]) - Max(b1[1], b2[1]))
        ih == Max(0, Min(b1[4], b2[4]) - Max(b1[2], b2[2]))
        inter == iw * ih
    IN  <<inter, _area(b1) + _area(b2) - inter>>

\* The square of twice the distance between the two centres.
_centerdist(b1, b2) ==
    LET dx == (b1[1] + b1[3]) - (b2[1] + b2[3])
        dy == (b1[2] + b1[4]) - (b2[2] + b2[4])
    IN  dx * dx + dy * dy

\* line 437: _iou(b, bk) > 0.55 or _centerdist(b, bk) < 0.12
Mergeable(b, bk) ==
    LET iou == _iou(b, bk)
    IN  \/ /\ iou[2] > 0
           /\ 100 * iou[1] > IouPct * iou[2]
        \/ _centerdist(b, bk) < (2 * CenterDistMin) * (2 * CenterDistMin)

Range(s) == { s[i] : i \in 1..Len(s) }

\* Iteration order of a Python set of strings: fixed within a process by the
\* string hashes, here the order of setOrder.
SetToList(S) == SelectSeq(setOrder, LAMBDA t : t \in S)

\* line 426: [*{*a_edits}, *b_edits]: the set closes before b's items.
MergeEdits(a, b) == SetToList(Range(a.suggested_edits)) \o b.suggested_edits

\* line 423: out = dict(a)
MergeGeo(a, b) == [shape |-> a.shape, geo |-> a.geo]

_merge(a, b) ==
    [shape |-> MergeGeo(a, b).shape,
     geo |-> MergeGeo(a, b).geo,
     label |-> IF a.label = "" /\ b.label # "" THEN b.label ELSE a.label,
     risks |-> SetToList(Range(a.risks) \cup Range(b.risks)),
     suggested_edits |-> MergeEdits(a, b)]

\* A slip: the clamp is left out.
NoClamp(h) == h

\* lines 440-445: every coordinate key present is clamped into [0, 1].
ClampGeo(h) ==
    [h EXCEPT !.geo = [k \in DOMAIN h.geo |-> Max(0, Min(100, h.geo[k]))]]

\* Stable insertion into a list sorted by area, largest first.
RECURSIVE InsertByArea(_, _)
InsertByArea(sorted, h) ==
    IF sorted = << >> THEN <<h>>
    ELSE IF _area(_bbox(Head(sorted))) >= _area(_bbox(h))
         THEN <<Head(sorted)>> \o InsertByArea(Tail(sorted), h)
         ELSE <<h>> \o sorted

RECURSIVE SortFrom(_, _)
SortFrom(list, acc) ==
    IF list = << >> THEN acc
    ELSE SortFrom(Tail(list), InsertByArea(acc, Head(list)))

\* A slip: the sort is left out (the candidates are processed as given).
Unsorted(list) == list

\* A slip: reverse=True is left out (smallest first).
SmallestFirst(list) ==
    [i \in 1..Len(list) |-> SortFrom(list, << >>)[Len(list) + 1 - i]]

\* line 431: sorted(hs, key=area, reverse=True), a stable sort.
hs_sorted(list) == SortFrom(list, << >>)

\* Index of the first kept region h merges into, 0 when there is none.
FirstMatch(kept, h) ==
    LET hits == { i \in 1..Len(kept) : Mergeable(_bbox(h), _bbox(kept[i])) }
    IN  IF hits = {} THEN 0 ELSE CHOOSE i \in hits : \A j \in hits : i <= j

\* lines 433-446: the loop over the sorted candidates.
RECURSIVE DedupeLoop(_, _)
DedupeLoop(rest, kept) ==
    IF rest = << >> THEN kept
    ELSE LET h == Head(rest)
             i == FirstMatch(kept, h)
         IN  IF i # 0
             THEN DedupeLoop(Tail(rest), [kept EXCEPT ![i] = _merge(kept[i], h)])
             ELSE DedupeLoop(Tail(rest), Append(kept, ClampGeo(h)))

dedupe_hotspots(hotspots) ==
    LET kept == DedupeLoop(hs_sorted(hotspots), << >>)
    IN  SubSeq(kept, 1, Min(Len(kept), MaxKept))

\* ---------------------------------------------- inputs of the hotspot spec
Hot(shape, geo, label, risks, edits) ==
    [shape |-> shape, geo |-> geo, label |-> label, risks |-> risks,
     suggested_edits |-> edits]

CircleGeo(cx, cy, r) == ("cx" :> cx) @@ ("cy" :> cy) @@ ("r" :> r)
RectGeo(x, y, w, h) == ("x" :> x) @@ ("y" :> y) @@ ("w" :> w) @@ ("h" :> h)

\* Candidates the model may propose for one image: the two circles of the
\* worked example (0.5, 0.5, 0.1 and 0.52, 0.5, 0.09), a circle of the first
\* one's area 0.08 from it, a circle right of the image (cx 1.3, no shape and
\* no radius given), a circle at the right edge (cx 0.95), two rectangles
\* that overlap with IoU 0.7 and centres 0.15 apart, and a rectangle that
\* starts left of the image (x -0.1) and is three images wide.
HotPool ==
    { Hot("circle", CircleGeo(50, 50, 10), "A", <<"t1">>, <<"t1">>),
      Hot("circle", CircleGeo(52, 50, 9), "B", <<"t1", "t2">>, <<"t1">>),
      Hot("circle", CircleGeo(58, 50, 10), "", <<"t2">>, <<"t2">>),
      Hot("", ("cx" :> 130) @@ ("cy" :> 50), "D", <<"t1">>, << >>),
      Hot("circle", CircleGeo(95, 50, 9), "I", <<"t2">>, << >>),
      Hot("rect", RectGeo(0, 0, 100, 50), "", <<"t1">>, <<"t2">>),
      Hot("Rect", RectGeo(30, 0, 70, 50), "G", <<"t2">>, <<"t2", "t1">>),
      Hot("rect", RectGeo(-10, 0, 300, 20), "H", << >>, << >>) }

HotLists == UNION { [1..n -> HotPool] : n \in 0..MaxHotspots }

SetOrders == { <<"t1", "t2">>, <<"t2", "t1">> }

Perms(n) == Permutations(1..n)
Permuted(list, f) == [i \in 1..Len(list) |-> list[f[i]]]

IdleHot == /\ hs = << >>
           /\ hsOut = << >>
           /\ hsOut2 = << >>
           /\ hsPerm = << >>
           /\ hsPermOut = << >>
           /\ hpc = "off"
           /\ setOrder = <<"t1", "t2">>

\* line 728: hotspots = dedupe_hotspots(it.get("hotspots") or [])
Dedupe ==
    /\ hpc = "proposed"
    /\ hsOut' = dedupe_hotspots(hs)
    /\ hpc' = "deduped"
    /\ UNCHANGED <<hs, hsOut2, hsPerm, hsPermOut, setOrder, varsScores, varsParse, varsRun, varsEval, varsFetch, varsGuess>>

\* The merge engine run again on its own output.
DedupeAgain ==
    /\ hpc = "deduped"
    /\ hsOut2' = dedupe_hotspots(hsOut)
    /\ hpc' = "rerun"
    /\ UNCHANGED <<hs, hsOut, hsPerm, hsPermOut, setOrder, varsScores, varsParse, varsRun, varsEval, varsFetch, varsGuess>>

\* The merge engine run on the same candidates in another order.
DedupePermuted ==
    /\ hpc = "deduped"
    /\ \E f \in Perms(Len(hs)) :
          /\ hsPerm' = Permuted(hs, f)
          /\ hsPermOut' = dedupe_hotspots(hsPerm')
    /\ hpc' = "permuted"
    /\ UNCHANGED <<hs, hsOut, hsOut2, setOrder, varsScores, varsParse, varsRun, varsEval, varsFetch, varsGuess>>

\* --------------------------------------------------- parse_json_or_fail
\* The raw model text is a sequence of tokens: "lb" is '{', "rb" is '}',
\* "junk" is any text that is not JSON (prose, a code fence, an error
\* message), "mem" is a complete member "k": v (with its comma), "key" is
\* "k": in front of a nested object.
JVal(vt, str) == [vt |-> vt, s |-> str]
NoVal == JVal("none", "")
Tok(t, k, v) == [t |-> t, k |-> k, v |-> v]
LB == Tok("lb", "", NoVal)
RB == Tok("rb", "", NoVal)
Junk == Tok("junk", "", NoVal)
Mem(k, v) == Tok("mem", k, v)
Key(k) == Tok("key", k, NoVal)

EmptyDict == [k \in {} |-> NoVal]

\* raw.find("{") and raw.rfind("}"), 1-based, 0 when not found.
Find(text) ==
    LET at == { i \in 1..Len(text) : text[i].t = "lb" }
    IN  IF at = {} THEN 0 ELSE CHOOSE i \in at : \A j \in at : i <= j
RFind(text) ==
    LET at == { i \in 1..Len(text) : text[i].t = "rb" }
    IN  IF at = {} THEN 0 ELSE CHOOSE i \in at : \A j \in at : i >= j

\* Open braces minus closed braces in span[1..i].
Depth(span, i) ==
    Cardinality({ j \in 1..i : span[j].t = "lb" })
    - Cardinality({ j \in 1..i : span[j].t = "rb" })

\* json.loads succeeds on a span that starts with '{' and ends with '}': the
\* braces balance and close only at the end, nothing but JSON is inside, and
\* a nested '{' stands exactly where a member's value is expected.
Decodes(span) ==
    /\ \A i \in 1..Len(span) : span[i].t # "junk"
    /\ \A i \in 1..(Len(span) - 1) : Depth(span, i) >= 1
    /\ Depth(span, Len(span)) = 0
    /\ \A i \in 2..Len(span) : span[i].t = "lb" => span[i - 1].t = "key"
    /\ \A i \in 1..(Len(span) - 1) : span[i].t = "key" => span[i + 1].t = "lb"

\* The dict json.loads returns: the members of the outer object, the last
\* one winning when a key repeats.
Decoded(span) ==
    LET top == { i \in 2..Len(span) :
                   span[i].t \in {"mem", "key"} /\ Depth(span, i - 1) = 1 }
        keys == { span[i].k : i \in top }
        last(k) == CHOOSE i \in top :
                     span[i].k = k /\ \A j \in top : span[j].k = k => j <= i
    IN  [k \in keys |->
           IF span[last(k)].t = "key" THEN JVal("obj", "") ELSE span[last(k)].v]

\* lines 93-96: data is the decoded dict, or None (hasData FALSE).
Loaded(text) ==
    LET st == Find(text)
        e == RFind(text)
    IN  IF st # 0 /\ e # 0 /\ e > st /\ Decodes(SubSeq(text, st, e))
        THEN [hasData |-> TRUE, dict |-> Decoded(SubSeq(text, st, e))]
        ELSE [hasData |-> FALSE, dict |-> EmptyDict]

\* A slip the other way: only None halts (if data is None).
HaltsOnNone(ld) == ~ld.hasData

\* line 97: if not data: None and the empty dict are both falsy.
Halts(ld) == ~ld.hasData \/ DOMAIN ld.dict = {}

\* A slip: a text that does not parse is silently taken as an empty object.
parse_or_default(text) == [stop |-> FALSE, data |-> Loaded(text).dict]

\* stop TRUE: st.error, the raw text shown, st.stop(); otherwise data returned.
parse_json_or_fail(text) ==
    IF Halts(Loaded(text))
    THEN [stop |-> TRUE, data |-> EmptyDict]
    ELSE [stop |-> FALSE, data |-> Loaded(text).dict]

ParseAlphabet == { LB, RB, Junk, Mem("a", JVal("num", "1")), Key("b") }
RawTexts == UNION { [1..n -> ParseAlphabet] : n \in 0..MaxRaw }

IdleParse == /\ raw = << >>
             /\ data = [stop |-> FALSE, data |-> EmptyDict]
             /\ ppc = "off"

\* One call of parse_json_or_fail on the text a model call returned.
Parse ==
    /\ ppc = "raw"
    /\ data' = parse_json_or_fail(raw)
    /\ ppc' = IF parse_json_or_fail(raw).stop THEN "stopped" ELSE "returned"
    /\ UNCHANGED <<raw, varsScores, varsHot, varsRun, varsEval, varsFetch, varsGuess>>

\* ------------------------------------------- run: brand research + refine
Str(x) == JVal("str", x)
Null == JVal("null", "")

\* str.strip() on the category strings of the model.
Strip(x) == IF x \in {" ", "  "} THEN "" ELSE x

\* Python truthiness of a JSON value.
Truthy(v) == v.vt \in {"obj", "num"} \/ (v.vt = "str" /\ v.s # "")

\* line 576, left operand: br_json.get("granularity", "").lower() != "macro";
\* .lower() raises AttributeError on a value that is not a string.
GranularityRaises(j) ==
    "granularity" \in DOMAIN j /\ j["granularity"].vt # "str"
GranularityNotMacro(j) ==
    Lower(IF "granularity" \in DOMAIN j THEN j["granularity"].s ELSE "") # "macro"

\* line 576, right operand: not (br_json.get("category") or "").strip();
\* .strip() raises on a truthy value that is not a string.
CategoryRaises(j) ==
    /\ "category" \in DOMAIN j
    /\ Truthy(j["category"])
    /\ j["category"].vt # "str"
CategoryBlank(j) ==
    Strip(IF "category" \in DOMAIN j /\ Truthy(j["category"])
          THEN j["category"].s ELSE "") = ""

\* The right operand of "or" is evaluated only when the left one is false.
NeedRefineRaises(j) ==
    GranularityRaises(j) \/ (~GranularityNotMacro(j) /\ CategoryRaises(j))

need_refine(j) == GranularityNotMacro(j) \/ CategoryBlank(j)

\* A slip: the refined result is merged into the first one, field by field.
RefinedMerge(first, second) ==
    [k \in DOMAIN first \cup DOMAIN second |->
        IF k \in DOMAIN second THEN second[k] ELSE first[k]]

\* line 586: br_json = br_json2
Refined(first, second) == second

\* Texts a research call may return: no JSON at all (an error string, an empty
\* string), an empty object, an object with prose inside, and objects with
\* the fields the refine decision and the profile read.
Opt(tok) == { << >>, <<tok>> }
GranTokens ==
    { << >> } \cup
    { <<Mem("granularity", v)>> :
        v \in { Str("macro"), Str("MACRO"), Str("micro"), Str(""), Null } }
CatTokens ==
    { << >> } \cup
    { <<Mem("category", v)>> :
        v \in { Str("Food"), Str(""), Str(" "), Null, JVal("num", "5") } }
SummaryTokens ==
    { << >> } \cup { <<Mem("executive_summary", Str(x))>> : x \in {"s1", "s2"} }

ResearchRaws ==
    { << >>, <<Junk>>, <<LB, RB>>, <<LB, Junk, RB>> } \cup
    { <<LB>> \o g \o c \o m \o <<RB>> :
        g \in GranTokens, c \in CatTokens, m \in SummaryTokens }

IdleRun == /\ pc = "off"
           /\ brand = ""
           /\ copy_txt = ""
           /\ imgs = << >>
           /\ use_sample = FALSE
           /\ sample_reads = TRUE
           /\ br_raw = << >>
           /\ br_json = EmptyDict
           /\ br_raw2 = << >>
           /\ br_json2 = EmptyDict
           /\ calls = 0

\* line 550: if not brand (an empty string; blanks are a name).
NoBrand == brand = ""

\* line 552: not copy_txt and not imgs and not (use_sample and sample_file
\* and sample_file.is_file()); use_sample is the ticked box of a sample file
\* that exists.
NoCreative == copy_txt = "" /\ imgs = << >> /\ ~use_sample

\* A slip: the run goes on whatever the inputs are.
GoUnchecked ==
    /\ pc = "idle"
    /\ pc' = "evidence"
    /\ UNCHANGED <<varsInputs, br_raw, br_json, br_raw2, br_json2, calls,
                   varsLib, varsEval>>

\* lines 549-553: the input checks behind the button (st.warning, st.stop()).
Go ==
    /\ pc = "idle"
    /\ pc' = IF NoBrand \/ NoCreative THEN "rejected" ELSE "evidence"
    /\ UNCHANGED <<varsInputs, br_raw, br_json, br_raw2, br_json2, calls,
                   varsLib, varsEval>>

\* HTTP GETs one evidence pass can make: none (no URL given, the source
\* guesses and the encyclopedia summary served from st.cache_data), the two
\* encyclopedia searches alone, or those with page fetches and probes.
EvidenceGets == {0, 2, 9}

\* lines 555-568: guess_brand_sources, fetch_html per URL, wiki_summary.
Evidence ==
    /\ pc = "evidence"
    /\ \E n \in EvidenceGets : extGets' = n
    /\ pc' = "research"
    /\ UNCHANGED <<varsInputs, br_raw, br_json, br_raw2, br_json2, calls, varsLib,
                   image_parts, data_uris, fit_raw, fit_json, evalCalls, shown,
                   drawn, doc>>

\* lines 572-574: the research call and the parse of its text.
ResearchFrom(pool) ==
    /\ pc = "research"
    /\ \E text \in pool :
          /\ br_raw' = text
          /\ IF parse_json_or_fail(text).stop
             THEN pc' = "stopped" /\ UNCHANGED br_json
             ELSE pc' = "decide" /\ br_json' = parse_json_or_fail(text).data
    /\ calls' = calls + 1
    /\ UNCHANGED <<varsInputs, br_raw2, br_json2, varsLib, varsEval>>

Research == ResearchFrom(ResearchRaws)

\* line 576 raises: the run ends in an unhandled exception.
DecideRaises ==
    /\ pc = "decide"
    /\ NeedRefineRaises(br_json)
    /\ pc' = "crashed"
    /\ UNCHANGED <<varsInputs, br_raw, br_json, br_raw2, br_json2, calls,
                   varsLib, varsEval>>

\* lines 576-577 with need_refine false: the first result stands.
Accept ==
    /\ pc = "decide"
    /\ ~NeedRefineRaises(br_json)
    /\ ~need_refine(br_json)
    /\ pc' = "profiled"
    /\ UNCHANGED <<varsInputs, br_raw, br_json, br_raw2, br_json2, calls,
                   varsLib, varsEval>>

\* lines 577-586: the refine call, the parse of its text, the replacement.
RefineFrom(pool) ==
    /\ pc = "decide"
    /\ ~NeedRefineRaises(br_json)
    /\ need_refine(br_json)
    /\ \E text \in pool :
          /\ br_raw2' = text
          /\ IF parse_json_or_fail(text).stop
             THEN pc' = "stopped" /\ UNCHANGED <<br_json, br_json2>>
             ELSE /\ pc' = "profiled"
                  /\ br_json2' = parse_json_or_fail(text).data
                  /\ br_json' = Refined(br_json, parse_json_or_fail(text).data)
    /\ calls' = calls + 1
    /\ UNCHANGED <<varsInputs, br_raw, varsLib, varsEval>>

Refine == RefineFrom(ResearchRaws)

\* ------------------------------------------- run: images, evaluation on
\* An uploaded file: ok FALSE when up.read() raises. An image is named by
\* the file it was made from ("sample" for the sample file), "none" is None.
Up(id, ok) == [id |-> id, ok |-> ok]

\* lines 344-351 and 353-361: None when the upload cannot be read.
to_image_part(up) == IF up.ok THEN up.id ELSE "none"
uploaded_to_data_uri(up) == IF up.ok THEN up.id ELSE "none"

\* line 647: if len(image_parts) >= 3: break
MaxImages == 3

\* lines 636-642: the sample goes first when it is enabled and can be read.
SampleFirst == IF use_sample /\ sample_reads THEN <<"sample">> ELSE << >>

\* lines 645-652: uploads in order, unreadable ones skipped, three in all.
RECURSIVE AddUploads(_, _)
AddUploads(parts, ups) ==
    IF ups = << >> \/ Len(parts) >= MaxImages THEN parts
    ELSE AddUploads(IF to_image_part(Head(ups)) # "none"
                    THEN Append(parts, uploaded_to_data_uri(Head(ups)))
                    ELSE parts,
                    Tail(ups))

\* lines 730-732: the image the overlay of entry idx is drawn on.
DrawnFor(idx) ==
    IF imgs # << >> /\ 1 <= idx /\ idx <= Len(imgs)
    THEN uploaded_to_data_uri(imgs[idx])
    ELSE IF data_uris # << >> /\ 1 <= idx /\ idx <= Len(data_uris)
    THEN data_uris[idx]
    ELSE "none"

\* One entry of image_feedback.
Entry(index, hotspots) == [index |-> index, hotspots |-> hotspots]

HotA == Hot("circle", CircleGeo(50, 50, 10), "A", <<"t1">>, <<"t1">>)
HotB == Hot("circle", CircleGeo(52, 50, 9), "B", <<"t1", "t2">>, <<"t1">>)
HotD == Hot("", ("cx" :> 130) @@ ("cy" :> 50), "D", <<"t1">>, << >>)

\* The verdict objects the evaluation call may answer with. In the raw text
\* the members of a verdict object are one token, Mem("fit", JVal("fit", id));
\* FitBody gives the fields the object decodes to.
FitIds == {"f1", "f2", "f3", "f4", "f5", "f6"}

FitBody(id) ==
    CASE id = "f1" ->
           [hasDims |-> TRUE,
            dimensions |-> <<DimItem(TRUE, "Tone & Voice", Num(158)),
                             DimItem(TRUE, "Visual Identity", Num(164))>>,
            overall_score |-> Num(156), verdict |-> "Good fit",
            image_feedback |-> <<Entry(1, <<HotA, HotB>>)>>]
      [] id = "f2" ->
           [hasDims |-> FALSE, dimensions |-> << >>,
            overall_score |-> StrScore, verdict |-> "Good fit",
            image_feedback |-> << >>]
      [] id = "f3" ->
           [hasDims |-> TRUE,
            dimensions |-> <<DimItem(TRUE, "Brand Voice", Num(160))>>,
            overall_score |-> Num(140), verdict |-> "Strong fit",
            image_feedback |-> <<Entry(2, << >>)>>]
      [] id = "f4" ->
           [hasDims |-> TRUE, dimensions |-> <<DimItem(FALSE, "", NoScore)>>,
            overall_score |-> NoScore, verdict |-> "",
            image_feedback |-> << >>]
      [] id = "f5" ->
           [hasDims |-> TRUE,
            dimensions |-> <<DimItem(TRUE, "Tone & Voice", Num(78))>>,
            overall_score |-> NoScore, verdict |-> "",
            image_feedback |-> <<Entry(1, <<HotD, HotD>>), Entry(3, <<HotA>>)>>]
      [] OTHER ->
           [hasDims |-> TRUE,
            dimensions |-> <<DimItem(TRUE, "Visual Identity", Num(80))>>,
            overall_score |-> Num(80), verdict |-> "Borderline",
            image_feedback |-> <<Entry(4, <<HotB>>)>>]

\* Texts the evaluation call may return: an error string ("Gemini Error:
\* ..."), an empty object, or a verdict object with prose in front.
EvalRaws ==
    { <<Junk>>, <<LB, RB>> } \cup
    { <<Junk, LB, Mem("fit", JVal("fit", id)), RB>> : id \in FitIds }

\* The verdict the parsed text stands for.
FitOf(d) == FitBody(d["fit"].s)

NoFit == [hasDims |-> FALSE, dimensions |-> << >>, overall_score |-> NoScore,
          verdict |-> "", image_feedback |-> << >>]
NoDoc == [brand_research |-> EmptyDict, fit_evaluation |-> NoFit]

IdleEval == /\ extGets = 0
            /\ image_parts = << >>
            /\ data_uris = << >>
            /\ fit_raw = << >>
            /\ fit_json = NoFit
            /\ evalCalls = 0
            /\ shown = << >>
            /\ drawn = << >>
            /\ doc = NoDoc

\* lines 633-652: the images sent to the model and their data URIs.
PrepareImages ==
    /\ pc = "profiled"
    /\ image_parts' = AddUploads(SampleFirst, imgs)
    /\ data_uris' = AddUploads(SampleFirst, imgs)
    /\ pc' = "prepared"
    /\ UNCHANGED <<varsInputs, br_raw, br_json, br_raw2, br_json2, calls, varsLib,
                   extGets, fit_raw, fit_json, evalCalls, shown, drawn, doc>>

\* lines 655-659: the evaluation call and the parse of its text.
Evaluate ==
    /\ pc = "prepared"
    /\ \E text \in EvalRaws :
          /\ fit_raw' = text
          /\ IF parse_json_or_fail(text).stop
             THEN pc' = "stopped" /\ UNCHANGED fit_json
             ELSE pc' = "evaluated" /\ fit_json' = FitOf(parse_json_or_fail(text).data)
    /\ evalCalls' = evalCalls + 1
    /\ UNCHANGED <<varsInputs, br_raw, br_json, br_raw2, br_json2, calls, varsLib,
                   extGets, image_parts, data_uris, shown, drawn, doc>>


\* line 661: fit_json = reconcile_scores(fit_json); the other fields of the
\* verdict stay as they are.
ReconcileStep ==
    /\ pc = "evaluated"
    /\ IF reconcile_scores(fit_json).raised
       THEN pc' = "crashed" /\ UNCHANGED fit_json
       ELSE /\ pc' = "scored"
            /\ fit_json' =
                 [hasDims |-> TRUE,
                  dimensions |-> reconcile_scores(fit_json).dimensions,
                  overall_score |-> reconcile_scores(fit_json).overall_score,
                  verdict |-> reconcile_scores(fit_json).verdict,
                  image_feedback |-> fit_json.image_feedback]
    /\ UNCHANGED <<varsInputs, br_raw, br_json, br_raw2, br_json2, calls, varsLib,
                   extGets, image_parts, data_uris, fit_raw, evalCalls, shown,
                   drawn, doc>>

\* lines 676-683: d.get("rationale") raises on an item that is not a dict and
\* d['score'] on one without a score (items valid_dims did not rebuild).
DisplayRaises(f) ==
    \E i \in 1..Len(f.dimensions) :
        /\ "isdict" \in DOMAIN f.dimensions[i]
        /\ ~f.dimensions[i].isdict \/ f.dimensions[i].score.k = "absent"

\* line 723: imgs_feedback[:3]
MaxShown == 3
ShownEntries(f) == SubSeq(f.image_feedback, 1, Min(MaxShown, Len(f.image_feedback)))

\* lines 663-786: the result on screen; per image_feedback entry the regions
\* drawn (line 728, a local list) and the image they are drawn on.
Display ==
    /\ pc = "scored"
    /\ IF DisplayRaises(fit_json)
       THEN pc' = "crashed" /\ UNCHANGED <<shown, drawn>>
       ELSE /\ pc' = "shown"
            /\ shown' = [i \in 1..Len(ShownEntries(fit_json)) |->
                           dedupe_hotspots(fit_json.image_feedback[i].hotspots)]
            /\ drawn' = [i \in 1..Len(ShownEntries(fit_json)) |->
                           DrawnFor(fit_json.image_feedback[i].index)]
    /\ UNCHANGED <<varsInputs, br_raw, br_json, br_raw2, br_json2, calls, varsLib,
                   extGets, image_parts, data_uris, fit_raw, fit_json, evalCalls, doc>>

\* line 791: {"brand_research": br_json, "fit_evaluation": fit_json}
ExportDoc(profile, f) == [brand_research |-> profile, fit_evaluation |-> f]

\* lines 789-796: the download button with the result document.
Export ==
    /\ pc = "shown"
    /\ doc' = ExportDoc(br_json, fit_json)
    /\ pc' = "done"
    /\ UNCHANGED <<varsInputs, br_raw, br_json, br_raw2, br_json2, calls, varsLib,
                   extGets, image_parts, data_uris, fit_raw, fit_json, evalCalls,
                   shown, drawn>>

\* Research texts of the whole-run specification: an error string, an empty
\* object, a macro profile, a profile to refine, one the decision raises on.
BriefRaws ==
    { <<Junk>>, <<LB, RB>>,
      <<LB, Mem("granularity", Str("macro")), Mem("category", Str("Food")), RB>>,
      <<LB, Mem("granularity", Str("micro")), RB>>,
      <<LB, Mem("granularity", Null), Mem("category", Str("Food")), RB>> }

ResearchBrief == ResearchFrom(BriefRaws)
RefineBrief == RefineFrom(BriefRaws)

\* ---------------------------------------------- fetch_html, evidence loop
\* What one HTTP GET comes to: a page, an empty page, an SSLError, an HTTP
\* error status (raise_for_status), or another failure (timeout, connection).
Outcomes == {"page", "empty", "ssl", "http", "conn"}

Get1(verify, outcome) == [verify |-> verify, outcome |-> outcome]

\* A return value of fetch_html: html is "none" (None), "" or the page text;
\* warn is "none" (None) or the message.
Ret(html, warn) == [html |-> html, warn |-> warn]
PageOf(o) == IF o = "page" THEN "page" ELSE ""

\* lines 111-113 and 121-122: what the first GET's outcome returns at once.
AfterFirst(o) ==
    IF o \in {"page", "empty"} THEN Ret(PageOf(o), "none")
    ELSE Ret("none", "fetch error")

\* A slip: the page of the unverified GET is returned without the warning.
AfterRetrySilent(o) ==
    IF o \in {"page", "empty"} THEN Ret(PageOf(o), "none")
    ELSE Ret("none", "fetch error (SSL)")

\* lines 116-120: what the unverified GET's outcome returns.
AfterRetry(o) ==
    IF o \in {"page", "empty"} THEN Ret(PageOf(o), "verification skipped")
    ELSE Ret("none", "fetch error (SSL)")

\* Arguments of fetch_html: page URLs, and "" (line 108).
UrlPool == {"", "https://a", "https://b"}
MaxUrls == 2
UrlLists == UNION { [1..n -> UrlPool] : n \in 1..MaxUrls }

NoRet == Ret("none", "none")

IdleFetch == /\ fpc = "off"
             /\ furls = << >>
             /\ fi = 0
             /\ gets = << >>
             /\ fret = NoRet
             /\ packs = << >>
             /\ warnings = << >>

\* lines 108-113, 121-122: fetch_html up to the end of the verified GET.
FetchFirst ==
    /\ fpc = "call"
    /\ IF furls[fi] = ""
       THEN /\ gets' = << >>
            /\ fret' = Ret("none", "empty URL")
            /\ fpc' = "returned"
       ELSE \E o \in Outcomes :
              /\ gets' = <<Get1(TRUE, o)>>
              /\ IF o = "ssl"
                 THEN fpc' = "retry" /\ UNCHANGED fret
                 ELSE fpc' = "returned" /\ fret' = AfterFirst(o)
    /\ UNCHANGED <<furls, fi, packs, warnings, varsScores, varsHot, varsParse,
                   varsGuess, varsRun, varsEval>>

\* lines 114-120: the GET with verify=False after an SSLError.
FetchRetry ==
    /\ fpc = "retry"
    /\ \E o \in Outcomes :
          /\ gets' = Append(gets, Get1(FALSE, o))
          /\ fret' = AfterRetry(o)
    /\ fpc' = "returned"
    /\ UNCHANGED <<furls, fi, packs, warnings, varsScores, varsHot, varsParse,
                   varsGuess, varsRun, varsEval>>

\* lines 561-564: the loop keeps the page when there is one and the warning
\* when there is one, and goes on to the next URL.
Collect ==
    /\ fpc = "returned"
    /\ packs' = IF fret.html \notin {"none", ""} THEN Append(packs, furls[fi]) ELSE packs
    /\ warnings' = IF fret.warn # "none"
                   THEN Append(warnings, <<furls[fi], fret.warn>>) ELSE warnings
    /\ fi' = fi + 1
    /\ fpc' = IF fi < Len(furls) THEN "call" ELSE "done"
    /\ UNCHANGED <<furls, gets, fret, varsScores, varsHot, varsParse,
                   varsGuess, varsRun, varsEval>>

\* ------------------------------------------------- guess_brand_sources
\* lines 159-161: four bases with four paths each, then the instagram page.
NumCands == 17

\* line 164: if len(picked) >= 3: break
MaxPicked == 3

\* A URL as typed: cand is the candidate it spells (0: some other page); form
\* is "plain" (exactly the candidate's text), "upper" (in upper case),
\* "padded" (blanks around it) or "slash" (a trailing slash added).
Url(cand, form) == [cand |-> cand, form |-> form]
CandUrl(i) == Url(i, "plain")

\* str.strip() and str.lower() on such a URL.
StripUrl(u) == IF u.form = "padded" THEN Url(u.cand, "plain") ELSE u
LowerUrl(u) == IF u.form = "upper" THEN Url(u.cand, "plain") ELSE u

\* A slip: the provided URLs are compared as typed.
SeenAsTyped(given) == given

\* line 162: seen = set(u.strip().lower() for u in already)
Seen(given) == { LowerUrl(StripUrl(u)) : u \in given }

\* line 164
Full(p) == Len(p) >= MaxPicked

\* URLs the caller may already have.
AlreadyPool ==
    { Url(1, "upper"), Url(2, "padded"), Url(3, "slash"), Url(5, "plain"),
      Url(0, "plain") }
MaxAlready == 2
AlreadySets == { A \in SUBSET AlreadyPool : Cardinality(A) <= MaxAlready }

Probe(cand, content) == [cand |-> cand, content |-> content]

IdleGuess == /\ gpc = "off"
             /\ already = {}
             /\ gi = 0
             /\ picked = << >>
             /\ probes = << >>

IdleNet == IdleFetch /\ IdleGuess

\* lines 163-167: one turn of the loop; fetch_html(u) gives content or not.
GuessStep ==
    /\ gpc = "loop"
    /\ gi <= NumCands
    /\ ~Full(picked)
    /\ IF LowerUrl(CandUrl(gi)) \in Seen(already)
       THEN UNCHANGED <<picked, probes>>
       ELSE \E content \in BOOLEAN :
              /\ probes' = Append(probes, Probe(gi, content))
              /\ picked' = IF content THEN Append(picked, gi) ELSE picked
    /\ gi' = gi + 1
    /\ UNCHANGED <<gpc, already, varsScores, varsHot, varsParse, varsFetch,
                   varsRun, varsEval>>

\* lines 164 and 168: the loop ends (break, or no candidate left).
GuessReturn ==
    /\ gpc = "loop"
    /\ gi > NumCands \/ Full(picked)
    /\ gpc' = "returned"
    /\ UNCHANGED <<already, gi, picked, probes, varsScores, varsHot, varsParse,
                   varsFetch, varsRun, varsEval>>

\* ------------------------------------------------------- specifications
InitScores == fit \in FitInputs /\ fitOut = NoFitOut /\ spc = "parsed"
              /\ IdleHot /\ IdleParse /\ IdleRun /\ IdleEval /\ IdleNet
NextScores == Reconcile
SpecScores == InitScores /\ [][NextScores]_vars

InitHot == /\ hs \in HotLists
           /\ setOrder \in SetOrders
           /\ hsOut = << >> /\ hsOut2 = << >> /\ hsPerm = << >> /\ hsPermOut = << >>
           /\ hpc = "proposed"
           /\ IdleScores /\ IdleParse /\ IdleRun /\ IdleEval /\ IdleNet
NextHot == Dedupe \/ DedupeAgain \/ DedupePermuted
SpecHot == InitHot /\ [][NextHot]_vars

InitParse == /\ raw \in RawTexts
             /\ data = [stop |-> FALSE, data |-> EmptyDict]
             /\ ppc = "raw"
             /\ IdleScores /\ IdleHot /\ IdleRun /\ IdleEval /\ IdleNet
NextParse == Parse
SpecParse == InitParse /\ [][NextParse]_vars

InitRun == /\ pc = "idle"
           /\ brand \in {"", "Acme"}
           /\ copy_txt \in {"", "copy"}
           /\ imgs = << >>
           /\ use_sample = FALSE
           /\ sample_reads = TRUE
           /\ br_raw = << >> /\ br_json = EmptyDict
           /\ br_raw2 = << >> /\ br_json2 = EmptyDict
           /\ calls = 0
           /\ IdleScores /\ IdleHot /\ IdleParse /\ IdleEval /\ IdleNet
NextRun == Go \/ Evidence \/ Research \/ DecideRaises \/ Accept \/ Refine
SpecRun == InitRun /\ [][NextRun]_vars

\* fetch_html called on each URL of a list, as the evidence loop does.
InitFetch == /\ furls \in UrlLists
             /\ fi = 1
             /\ fpc = "call"
             /\ gets = << >> /\ fret = NoRet /\ packs = << >> /\ warnings = << >>
             /\ IdleGuess /\ IdleScores /\ IdleHot /\ IdleParse /\ IdleRun /\ IdleEval
NextFetch == FetchFirst \/ FetchRetry \/ Collect
SpecFetch == InitFetch /\ [][NextFetch]_vars

\* One call of guess_brand_sources.
InitGuess == /\ already \in AlreadySets
             /\ gi = 1
             /\ picked = << >> /\ probes = << >>
             /\ gpc = "loop"
             /\ IdleFetch /\ IdleScores /\ IdleHot /\ IdleParse /\ IdleRun /\ IdleEval
NextGuess == GuessStep \/ GuessReturn
SpecGuess == InitGuess /\ [][NextGuess]_vars

\* The run from the finished brand profile on, over the images given: the
\* sample box, whether the sample file can be read, and up to MaxUploads
\* uploads, each readable or not.
MaxUploads == 4
UploadNames == <<"u1", "u2", "u3", "u4", "u5", "u6">>
UploadLists ==
    { [i \in 1..n |-> Up(UploadNames[i], ok[i])] :
        n \in 0..MaxUploads, ok \in [1..MaxUploads -> BOOLEAN] }
MacroText == <<LB, Mem("granularity", Str("macro")), Mem("category", Str("Food")), RB>>

InitImages == /\ pc = "profiled"
              /\ brand = "Acme"
              /\ copy_txt = "copy"
              /\ imgs \in UploadLists
              /\ use_sample \in BOOLEAN
              /\ sample_reads \in BOOLEAN
              /\ br_raw = MacroText
              /\ br_json = parse_json_or_fail(MacroText).data
              /\ br_raw2 = << >> /\ br_json2 = EmptyDict
              /\ calls = 1
              /\ extGets \in EvidenceGets
              /\ image_parts = << >> /\ data_uris = << >>
              /\ fit_raw = << >> /\ fit_json = NoFit /\ evalCalls = 0
              /\ shown = << >> /\ drawn = << >> /\ doc = NoDoc
              /\ IdleNet /\ IdleScores /\ IdleHot /\ IdleParse
NextImages == PrepareImages \/ Evaluate \/ ReconcileStep \/ Display \/ Export
SpecImages == InitImages /\ [][NextImages]_vars

\* The whole run, from the button to the download.
InitPipeline == /\ pc = "idle"
                /\ brand \in {"", "Acme"}
                /\ copy_txt \in {"", " ", "copy"}
                /\ imgs \in { << >>, <<Up("u1", TRUE)>> }
                /\ use_sample \in BOOLEAN
                /\ sample_reads = TRUE
                /\ br_raw = << >> /\ br_json = EmptyDict
                /\ br_raw2 = << >> /\ br_json2 = EmptyDict
                /\ calls = 0
                /\ IdleEval /\ IdleNet /\ IdleScores /\ IdleHot /\ IdleParse
NextPipeline == \/ Go \/ Evidence \/ ResearchBrief \/ DecideRaises \/ Accept
                \/ RefineBrief \/ PrepareImages \/ Evaluate \/ ReconcileStep
                \/ Display \/ Export
SpecPipeline == InitPipeline /\ [][NextPipeline]_vars

Init == InitRun
Next == NextRun
Spec == SpecRun

\* ================================================================ claims
\* ---------------------------------------------------------------- scores
\* An entry valid_dims keeps: a dict with a recognised name whose score is a
\* number (a missing score is the number 0, the default of d.get).
IsValidEntry(d) ==
    d.isdict /\ d.name \in AllowedNames /\ d.score.k \in {"num", "absent"}

ValidEntries(f) == IF f.hasDims THEN SelectSeq(f.dimensions, IsValidEntry) ELSE << >>

\* The valid scores as integers (Python round) clamped to [0, 100].
ExpectedScores(f) ==
    [i \in 1..Len(ValidEntries(f)) |->
        Max(0, Min(100, PyRound(FloatHalf(ValidEntries(f)[i].score), 2)))]

\* The threshold table, bound by bound.
InTable(score, verdict) ==
    /\ score >= 80 => verdict = "Strong fit"
    /\ (score >= 60 /\ score <= 79) => verdict = "Good fit"
    /\ (score >= 40 /\ score <= 59) => verdict = "Borderline"
    /\ score <= 39 => verdict = "Misaligned"

\* C1: with at least one valid dimension, overall_score is Python's
\* round (ties to even) of the mean of the valid clamped integer scores,
\* whatever the model reported, and verdict is the threshold table's value
\* for it (39 Misaligned, 40 and 59 Borderline, 60 and 79 Good fit, 80
\* Strong fit).
C1_MeanAndVerdict ==
    (spc = "reconciled" /\ Len(ValidEntries(fit)) >= 1) =>
        /\ fitOut.overall_score =
             PyRound(SumSeq(ExpectedScores(fit)), Len(ExpectedScores(fit)))
        /\ InTable(fitOut.overall_score, fitOut.verdict)
        /\ fitOut.overall_score \in 0..100

\* Two valid scores 79 and 82 (mean 80.5) reconciled to 80, Strong fit,
\* against a report of 39 and "Good fit".
C1_Witness ==
    /\ spc = "reconciled"
    /\ ExpectedScores(fit) = <<79, 82>>
    /\ fit.overall_score = Num(78)
    /\ fit.verdict = "Good fit"
    /\ fitOut.overall_score = 80
    /\ fitOut.verdict = "Strong fit"

\* C2: with no valid dimension, reconcile_scores returns, overall_score
\* is the reported overall_score clamped into [0, 100] (0 when absent or null)
\* and verdict is the threshold table's value for it.
C2_FallbackClamped ==
    (spc \in {"reconciled", "raised"} /\ Len(ValidEntries(fit)) = 0) =>
        /\ ~fitOut.raised
        /\ fit.overall_score.k # "str" =>
             2 * fitOut.overall_score =
                Max(0, Min(200, FloatHalf(fit.overall_score)))
        /\ InTable(fitOut.overall_score, fitOut.verdict)

\* --------------------------------------------------------------- hotspots
\* Shape and coordinate fields of a hotspot, and of a list of them.
GeoOf(h) == [shape |-> h.shape, geo |-> h.geo]
GeoSeq(list) == [i \in 1..Len(list) |-> GeoOf(list[i])]

\* Area of the bounding box a hotspot has as it stands.
BoxArea(h) == _area(_bbox(h))

\* Every coordinate field of every hotspot of the list lies in [0, 1].
CoordsInUnit(list) ==
    \A i \in 1..Len(list) : \A k \in DOMAIN list[i].geo :
        list[i].geo[k] >= 0 /\ list[i].geo[k] <= 100

\* C3 as stated: a second run of dedupe_hotspots on its own output
\* returns that output unchanged, for every input.
C3_Idempotent == hpc = "rerun" => hsOut2 = hsOut

\* C3 amended: a second run of dedupe_hotspots on its own output
\* returns that output unchanged when every coordinate field of the input
\* lies in [0, 1].
C3_IdempotentInUnit == (hpc = "rerun" /\ CoordsInUnit(hs)) => hsOut2 = hsOut

\* Three in-range candidates, one merged away in the first run, rerun.
C3_Witness ==
    /\ hpc = "rerun"
    /\ CoordsInUnit(hs)
    /\ Len(hs) = 3
    /\ Len(hsOut) = 2
    /\ hsOut2 = hsOut

\* The kept regions with their geometry, as a set.
GeoSet(list) == { GeoOf(list[i]) : i \in 1..Len(list) }

\* The candidates of a given bounding-box area, in list order.
OfArea(list, a) == SelectSeq(list, LAMBDA h : BoxArea(h) = a)

\* The permutation leaves candidates of equal area in their relative order.
KeepsTies(list, perm) ==
    \A i \in 1..Len(list) :
        OfArea(perm, BoxArea(list[i])) = OfArea(list, BoxArea(list[i]))

\* C4 as stated: any permutation of the input gives the same kept
\* regions with the same geometry.
C4_OrderIndependent ==
    hpc = "permuted" =>
        /\ GeoSet(hsPermOut) = GeoSet(hsOut)
        /\ Len(hsPermOut) = Len(hsOut)

\* C4 amended: a permutation of the input that leaves candidates of
\* equal bounding-box area in their relative order gives the same kept
\* regions with the same geometry (in the same output order).
C4_OrderIndependentUpToTies ==
    (hpc = "permuted" /\ KeepsTies(hs, hsPerm)) => GeoSeq(hsPermOut) = GeoSeq(hsOut)

\* Three candidates in another order, ties kept, one merged away.
C4_Witness ==
    /\ hpc = "permuted"
    /\ KeepsTies(hs, hsPerm)
    /\ hsPerm # hs
    /\ Len(hs) = 3
    /\ Len(hsOut) = 2
    /\ GeoSeq(hsPermOut) = GeoSeq(hsOut)

\* C5: every coordinate field of every hotspot dedupe_hotspots returns
\* lies in [0, 1], for regions kept unmerged and regions that absorbed others.
C5_OutputInUnit ==
    /\ hpc \in {"deduped", "rerun", "permuted"} => CoordsInUnit(hsOut)
    /\ hpc = "rerun" => CoordsInUnit(hsOut2)
    /\ hpc = "permuted" => CoordsInUnit(hsPermOut)

\* Input with a negative and a >1 coordinate; the region clamped to cx = 1
\* absorbed another candidate (it carries both candidates' risks).
C5_Witness ==
    /\ hpc = "deduped"
    /\ Len(hs) = 3
    /\ Len(hsOut) = 2
    /\ \E j \in 1..3 : \E k \in DOMAIN hs[j].geo : hs[j].geo[k] < 0
    /\ \E j \in 1..3 : \E k \in DOMAIN hs[j].geo : hs[j].geo[k] > 100
    /\ \E i \in 1..2 : /\ hsOut[i].geo = ("cx" :> 100) @@ ("cy" :> 50)
                       /\ Len(hsOut[i].risks) = 2

\* C6 as stated: the bounding-box areas of consecutive returned hotspots
\* are non-increasing.
C6_OutputAreasDescend ==
    hpc = "deduped" =>
        \A i \in 1..(Len(hsOut) - 1) : BoxArea(hsOut[i]) >= BoxArea(hsOut[i + 1])

\* The coordinate fields of a candidate after the clamp into [0, 1].
ClampedGeo(h) ==
    [shape |-> h.shape,
     geo |-> [k \in DOMAIN h.geo |->
                IF h.geo[k] < 0 THEN 0 ELSE IF h.geo[k] > 100 THEN 100 ELSE h.geo[k]]]

\* C6 amended: the returned hotspots are the clamped geometry of
\* distinct candidates, in the order of the areas the candidates had as
\* proposed (before the clamp), largest first, equal areas in input order; so
\* the returned areas are non-increasing when the input lies in [0, 1].
C6_OrderedByProposedArea ==
    hpc = "deduped" =>
        /\ \E g \in [1..Len(hsOut) -> 1..Len(hs)] :
              /\ \A i \in 1..Len(hsOut) : GeoOf(hsOut[i]) = ClampedGeo(hs[g[i]])
              /\ \A i, j \in 1..Len(hsOut) :
                    i < j => \/ BoxArea(hs[g[i]]) > BoxArea(hs[g[j]])
                             \/ /\ BoxArea(hs[g[i]]) = BoxArea(hs[g[j]])
                                /\ g[i] < g[j]
        /\ CoordsInUnit(hs) =>
              \A i \in 1..(Len(hsOut) - 1) : BoxArea(hsOut[i]) >= BoxArea(hsOut[i + 1])

\* Three candidates proposed smallest first, all kept, returned largest first.
C6_Witness ==
    /\ hpc = "deduped"
    /\ Len(hs) = 3
    /\ Len(hsOut) = 3
    /\ BoxArea(hs[1]) < BoxArea(hs[2])
    /\ BoxArea(hs[2]) < BoxArea(hs[3])
    /\ GeoOf(hsOut[1]) = ClampedGeo(hs[3])

\* s holds no item twice.
NoRepeat(s) == \A i, j \in 1..Len(s) : s[i] = s[j] => i = j

\* s is the union of a's and b's items, each once, a's items first.
UnionAFirst(s, a, b) ==
    /\ NoRepeat(s)
    /\ Range(s) = Range(a) \cup Range(b)
    /\ \A i, j \in 1..Len(s) : (s[i] \in Range(a) /\ s[j] \notin Range(a)) => i < j

\* C7: when two candidates merge, the result keeps the geometry of the
\* kept (larger, or first of equal) one, takes the other's label only if its
\* own is empty, and has risks and suggested_edits equal to the union of both,
\* no item twice, the kept one's items first.
C7_MergeResult ==
    (hpc = "deduped" /\ Len(hs) = 2 /\ Len(hsOut) = 1) =>
        LET aIdx == IF BoxArea(hs[1]) >= BoxArea(hs[2]) THEN 1 ELSE 2
            a == hs[aIdx]
            b == hs[3 - aIdx]
        IN  /\ GeoOf(hsOut[1]) = ClampedGeo(a)
            /\ hsOut[1].label = (IF a.label = "" THEN b.label ELSE a.label)
            /\ UnionAFirst(hsOut[1].risks, a.risks, b.risks)
            /\ UnionAFirst(hsOut[1].suggested_edits, a.suggested_edits,
                           b.suggested_edits)

\* ------------------------------------------------------- research + refine
\* The run has passed the refine decision (or ended in it).
PastDecision == pc \in {"profiled", "crashed"} \/ (pc = "stopped" /\ calls = 2)

\* The first parsed result, read back from the text of the first call.
FirstResult == parse_json_or_fail(br_raw).data

\* The claim's condition on the first result: granularity is not the string
\* "macro", or category is absent, null, empty or whitespace-only.
ClaimNeedsRefine(j) ==
    \/ "granularity" \notin DOMAIN j
    \/ j["granularity"] # Str("macro")
    \/ "category" \notin DOMAIN j
    \/ j["category"] \in {Null, Str(""), Str(" ")}

\* C8: a refine request is issued iff the first parsed result has a
\* granularity other than "macro" or a blank category; otherwise there is no
\* second research call and the first result is the final profile.
C8_RefineIff ==
    PastDecision =>
        /\ (calls = 2) <=> ClaimNeedsRefine(FirstResult)
        /\ ~ClaimNeedsRefine(FirstResult) =>
              (pc = "profiled" /\ calls = 1 /\ br_json = FirstResult)

\* C9: at most two research calls are made, and once a refine pass has
\* succeeded the profile is exactly the second parsed result (no field of the
\* first is carried over, and the second is not checked again).
C9_OneRefinePass ==
    /\ calls <= 2
    /\ (pc = "profiled" /\ calls = 2) =>
          br_json = parse_json_or_fail(br_raw2).data
    /\ (pc = "profiled" /\ calls = 1) => br_json = FirstResult

\* A refine pass whose result is still not macro and lacks the summary the
\* first result had: the run goes on with it, after two calls.
C9_Witness ==
    /\ pc = "profiled"
    /\ calls = 2
    /\ "executive_summary" \in DOMAIN FirstResult
    /\ "executive_summary" \notin DOMAIN br_json
    /\ "granularity" \in DOMAIN br_json
    /\ br_json["granularity"] = Str("micro")

\* ------------------------------------------------------------------ parse
\* The span from the first '{' to the last '}' exists and decodes.
SpanDecodes(text) ==
    /\ \E i, j \in 1..Len(text) : i < j /\ text[i].t = "lb" /\ text[j].t = "rb"
    /\ Decodes(SubSeq(text, Find(text), RFind(text)))

\* C10 as stated: the parse halts iff the span from the first '{' to the
\* last '}' is missing or does not decode; every text whose span decodes to
\* an object, whatever its fields, is returned.
C10_HaltsIffNoObject ==
    ppc \in {"stopped", "returned"} => ((ppc = "stopped") <=> ~SpanDecodes(raw))

\* C10 amended: the parse halts iff the span from the first '{' to the
\* last '}' is missing, does not decode, or decodes to the empty object; a
\* text whose span decodes to an object with at least one member is returned
\* as that object.
C10_HaltsIffNoMembers ==
    ppc \in {"stopped", "returned"} =>
        LET span == SubSeq(raw, Find(raw), RFind(raw))
            members == { i \in 2..Len(span) :
                           span[i].t \in {"mem", "key"} /\ Depth(span, i - 1) = 1 }
        IN  /\ (ppc = "stopped") <=> ~(SpanDecodes(raw) /\ members # {})
            /\ ppc = "returned" =>
                   /\ ~data.stop
                   /\ DOMAIN data.data = { span[i].k : i \in members }

\* Prose, then an object with one member: the object is returned.
C10_Witness ==
    /\ ppc = "returned"
    /\ Len(raw) = 4
    /\ raw[1] = Junk
    /\ DOMAIN data.data = {"a"}

\* ---------------------------------------------------------------- the run
\* The text of a research call (the first one or the refine) did not parse.
ResearchFailed ==
    \/ calls >= 1 /\ Halts(Loaded(br_raw))
    \/ calls = 2 /\ Halts(Loaded(br_raw2))

\* The text of the evaluation call did not parse.
EvalFailed == evalCalls >= 1 /\ Halts(Loaded(fit_raw))

\* C11: a parse failure ends the run. After a research text (first or
\* refine) that does not parse, the run is stopped with no evaluation call, no
\* reconciliation, nothing shown and no export; after an evaluation text that
\* does not parse, it is stopped with no reconciliation, nothing shown and no
\* export. An error string returned for a failed transport is such a text.
C11_ParseFailureTerminal ==
    /\ ResearchFailed =>
          /\ pc = "stopped"
          /\ evalCalls = 0
          /\ fit_raw = << >>
          /\ shown = << >> /\ drawn = << >>
    /\ EvalFailed =>
          /\ pc = "stopped"
          /\ evalCalls = 1
          /\ shown = << >> /\ drawn = << >>
    /\ pc = "stopped" => ResearchFailed \/ EvalFailed

\* A run whose refine pass parsed and whose evaluation call returned an error
\* string: stopped after the one evaluation call.
C11_Witness ==
    /\ pc = "stopped"
    /\ calls = 2
    /\ ~ResearchFailed
    /\ evalCalls = 1
    /\ fit_raw = <<Junk>>

\* C12: a run with an empty brand name, or with no copy text, no
\* uploaded image and no enabled sample image, is rejected before any external
\* call: no HTTP GET for evidence (page fetch, source probe, encyclopedia
\* lookup) and no model call (research, refine, evaluation) is made in it.
C12_RejectedBeforeCalls ==
    (NoBrand \/ NoCreative) =>
        /\ pc \in {"idle", "rejected"}
        /\ extGets = 0
        /\ calls = 0
        /\ evalCalls = 0
        /\ br_raw = << >> /\ fit_raw = << >>

\* A brand with nothing to audit, rejected.
C12_Witness ==
    /\ pc = "rejected"
    /\ brand = "Acme"
    /\ copy_txt = "" /\ imgs = << >> /\ ~use_sample

\* ------------------------------------------------------------- fetch_html
\* C13: one fetch_html call makes at most two GETs; the first verifies
\* TLS; a second one is made exactly when the first ended in an SSLError, runs
\* unverified and is never followed by another; a page (even an empty one)
\* returned from the second GET comes with a warning; any other failure of the
\* first GET returns no content and an error string, without a retry.
C13_OneUnverifiedRetry ==
    /\ Len(gets) <= 2
    /\ Len(gets) >= 1 => gets[1].verify
    /\ Len(gets) = 2 => gets[1].outcome = "ssl" /\ ~gets[2].verify
    /\ fpc = "returned" =>
          /\ (Len(gets) >= 1 /\ gets[1].outcome = "ssl") => Len(gets) = 2
          /\ (Len(gets) = 2 /\ fret.html # "none") => fret.warn # "none"
          /\ (Len(gets) >= 1 /\ gets[1].outcome \in {"http", "conn"}) =>
                /\ Len(gets) = 1
                /\ fret.html = "none"
                /\ fret.warn # "none"
          /\ (Len(gets) = 1 /\ gets[1].outcome \in {"page", "empty"}) =>
                fret = Ret(PageOf(gets[1].outcome), "none")

\* The second URL's page came from the unverified GET; its warning is in the
\* list the run shows.
C13_Witness ==
    /\ fpc = "done"
    /\ Len(furls) = 2
    /\ gets = <<Get1(TRUE, "ssl"), Get1(FALSE, "page")>>
    /\ fret = Ret("page", "verification skipped")
    /\ <<furls[2], "verification skipped">> \in Range(warnings)
    /\ furls[2] \in Range(packs)

\* ----------------------------------------------------------------- export
\* C14: in the exported document every image_feedback entry's hotspots
\* list is the de-duplicated list drawn for that entry, not the list the model
\* proposed (the verdict itself being the reconciled one).
C14_ExportDeduped ==
    pc = "done" =>
        /\ doc.fit_evaluation.overall_score = fit_json.overall_score
        /\ \A i \in 1..Len(shown) :
              doc.fit_evaluation.image_feedback[i].hotspots = shown[i]

\* ------------------------------------------------- scores, further claims
\* C15: after reconcile_scores the verdict's dimensions are exactly the
\* three fixed names, each once, each with an integer score in [0, 100],
\* whatever the parsed response held (whenever the call returns).
C15_ExactlyThreeDimensions ==
    spc = "reconciled" =>
        /\ Len(fitOut.dimensions) = 3
        /\ { fitOut.dimensions[i].name : i \in 1..3 } = AllowedNames
        /\ \A i \in 1..3 :
              /\ "isdict" \notin DOMAIN fitOut.dimensions[i]
              /\ fitOut.dimensions[i].score \in 0..100

\* C16: reconcile_scores completes normally on every parsed verdict,
\* a non-numeric reported overall_score with no valid dimension included.
C16_ReconcileReturns == spc # "raised"

\* ---------------------------------------------------- guess_brand_sources
\* The typed URL u is candidate i up to letter case and surrounding blanks.
SameUrl(u, i) == u.cand = i /\ u.form \in {"plain", "upper", "padded"}

\* C17: guess_brand_sources returns at most 3 URLs; each was probed and
\* gave content; none equals, case-insensitively and after trimming, a URL
\* already provided; candidates are probed in construction order, a provided
\* one never, and no probe follows the third validated candidate.
C17_AtMostThreeProbed ==
    gpc \in {"loop", "returned"} =>
        /\ Len(picked) <= 3
        /\ \A k \in 1..Len(picked) :
              /\ \E j \in 1..Len(probes) : probes[j] = Probe(picked[k], TRUE)
              /\ \A u \in already : ~SameUrl(u, picked[k])
        /\ \A j \in 1..Len(probes) :
              /\ \A u \in already : ~SameUrl(u, probes[j].cand)
              /\ j > 1 => probes[j - 1].cand < probes[j].cand
        /\ \A k \in 1..(Len(picked) - 1) : picked[k] < picked[k + 1]
        /\ Len(picked) = 3 => probes[Len(probes)] = Probe(picked[3], TRUE)
        /\ gpc = "returned" => Len(picked) = 3 \/ gi = NumCands + 1

\* Three sources found before the candidates ran out, the first candidate
\* skipped because it was provided in upper case, one probe without content.
C17_Witness ==
    /\ gpc = "returned"
    /\ Url(1, "upper") \in already
    /\ Len(picked) = 3
    /\ picked[1] = 2
    /\ Len(probes) = 4
    /\ gi <= NumCands

\* ------------------------------------------------------------------ images
\* C18: the image the regions of an image_feedback entry with index i
\* are drawn on is the i-th image that was sent to the model (sample first
\* when enabled, then the uploads in order, three at most); nothing is drawn
\* for an index no sent image has.
C18_DrawnOnSentImage ==
    pc \in {"shown", "done"} =>
        /\ Len(image_parts) <= 3
        /\ \A i \in 1..Len(drawn) :
              LET idx == fit_json.image_feedback[i].index
              IN  IF 1 <= idx /\ idx <= Len(image_parts)
                  THEN drawn[i] = image_parts[idx]
                  ELSE drawn[i] = "none"

====
